---- MODULE Spec2Model ----
(***************************************************************************)
(* BuzHash rolling hash (assembly/index.ts): the four exported functions   *)
(* size, init, add and staticInit acting on a byte-addressed linear memory *)
(* that holds the 1024-byte table of random words and the hash instances   *)
(* (a 9-byte Header followed by a circular buffer of blockSize bytes).     *)
(*                                                                         *)
(* A u32 is kept as the four bytes a little-endian store<u32> puts in      *)
(* memory, <<b0, b1, b2, b3>> with b0 the least significant, so that       *)
(* every 32-bit value stays inside the integers TLC can hold.              *)
(***************************************************************************)
EXTENDS Integers, Sequences, FiniteSets, TLC

VARIABLES
    mem,         \* the linear memory: cell a + 1 holds the byte at address a
    staticData,  \* the global staticData (index.ts line 46)
    fed,         \* per instance: the bytes passed to add since the last init
    ret,         \* per instance: the hashes add returned since the last init
    inited,      \* per instance: init has been called on it
    written,     \* per instance: the addresses add stored a byte at since the last init
    calls,       \* the calls made: staticInit's arguments, counts of the others
    lastOp       \* the most recent call: arguments, result, memory accesses

vars == <<mem, staticData, fed, ret, inited, written, calls, lastOp>>

-----------------------------------------------------------------------------
(* Bounds of the model. *)

\* largest blockSize passed to init in Spec
MaxBlockSize == 3

\* add calls per instance, over all its inits
MaxAdds == 6

\* init calls per instance
MaxInits == 2

\* staticInit calls in SpecStatic
MaxStaticInits == 3

\* add calls per instance in SpecPair and SpecStatic
MaxPairAdds == 3

\* largest blockSize passed to init in SpecPair
MaxPairBlock == 2

\* distance between the two table locations staticInit is called with
Shift == 4

-----------------------------------------------------------------------------
(* Fixed-width integers. *)

U16_MAX == 65535

\* usize.MAX_VALUE, the 32-bit pattern 0xFFFFFFFF; -1 is the same pattern
\* read as a signed 32-bit integer (staticInit compares dest with -1).
USIZE_MAX == -1

Zero32 == <<0, 0, 0, 0>>

\* the u32 0xHHHHLLLL from its two 16-bit halves, as little-endian bytes
U32(hi, lo) == <<lo % 256, lo \div 256, hi % 256, hi \div 256>>

RECURSIVE XorBits(_, _, _)
\* bitwise exclusive or of the n low bits of a and b
XorBits(a, b, n) ==
    IF n = 0 THEN 0
    ELSE ((a + b) % 2) + 2 * XorBits(a \div 2, b \div 2, n - 1)

\* the ^ operator on u32 (index.ts lines 99 and 105)
Xor32(x, y) == [i \in 1..4 |-> XorBits(x[i], y[i], 8)]

Pow2(s) == CASE s = 0 -> 1 [] s = 1 -> 2 [] s = 2 -> 4 [] s = 3 -> 8
             [] s = 4 -> 16 [] s = 5 -> 32 [] s = 6 -> 64 [] s = 7 -> 128
             [] s = 8 -> 256

\* wrong rotation: the count taken modulo 16
rotlMod16(x, n) ==
    LET k == (n % 16) \div 8
        s == n % 8
        r == [i \in 1..4 |-> x[((i - 1 - k + 4) % 4) + 1]]
    IN  [i \in 1..4 |->
            ((r[i] * Pow2(s)) % 256) + (r[((i + 2) % 4) + 1] \div Pow2(8 - s))]

\* rotl<u32>(x, n): the i32.rotl instruction, which takes the count modulo 32.
\* A rotation by 8k + s bits moves every byte k places up and then carries
\* the top s bits of each byte into the byte above it.
rotl(x, n) ==
    LET k == (n % 32) \div 8
        s == n % 8
        r == [i \in 1..4 |-> x[((i - 1 - k + 4) % 4) + 1]]
    IN  [i \in 1..4 |->
            ((r[i] * Pow2(s)) % 256) + (r[((i + 2) % 4) + 1] \div Pow2(8 - s))]

-----------------------------------------------------------------------------
(* The table of 256 random words that staticInit stores, in source order. *)

Table == <<
    U32(\h12bd, \h9527), U32(\hf414, \h0cea), U32(\h987b, \hd6e1), U32(\h7907, \h9850),
    U32(\hafbf, \hd539), U32(\hd350, \hce0a), U32(\h8297, \h3931), U32(\h9fc3, \h2b9c),
    U32(\h2800, \h3b88), U32(\hc30c, \h13aa), U32(\h6b67, \h8c34), U32(\h5844, \hef1d),
    U32(\haa55, \h2c18), U32(\h4a77, \hd3e8), U32(\hd1f6, \h2ea0), U32(\h6599, \h417c),
    U32(\hfbe3, \h0e7a), U32(\hf9e2, \hd5ee), U32(\ha1fc, \ha42e), U32(\h4154, \h8969),
    U32(\h116d, \h5b59), U32(\haeda, \h1e1a), U32(\hc519, \h1c17), U32(\h54b9, \ha3cb),
    U32(\h727e, \h492a), U32(\h5c43, \h2f91), U32(\h31a5, \h0bce), U32(\hc269, \h6af6),
    U32(\h217c, \h8020), U32(\h1262, \haefc), U32(\hace7, \h5924), U32(\h9876, \ha04f),
    U32(\haf30, \h0bc2), U32(\h3ffc, \he3f6), U32(\hd668, \h0fb5), U32(\hd0b1, \hced8),
    U32(\h6651, \hf842), U32(\h736f, \hadef), U32(\hbc2d, \h3429), U32(\hb03d, \h2904),
    U32(\h7e63, \h4ba4), U32(\hdfd8, \h7d8c), U32(\h7988, \hd63a), U32(\h4be4, \hd933),
    U32(\h6a8d, \h0382), U32(\h9e13, \h2d62), U32(\h3ee9, \hc95f), U32(\hfec0, \h5b97),
    U32(\h6907, \had34), U32(\h8616, \hcfcc), U32(\ha6aa, \hbf24), U32(\h8ad1, \hc92e),
    U32(\h4f2a, \hffc0), U32(\hb875, \h19db), U32(\h6576, \heaf6), U32(\h15db, \he00a),
    U32(\h63e1, \hdd82), U32(\ha36b, \h6a81), U32(\heead, \h99b3), U32(\hbc6a, \h4309),
    U32(\h3478, \hd1a7), U32(\h2182, \hbcc0), U32(\hdd50, \hcfce), U32(\h7cb2, \h5580),
    U32(\h7307, \h5483), U32(\h503b, \h7f42), U32(\h4cd5, \h0d63), U32(\h3f4d, \h94c9),
    U32(\h385f, \hcbb7), U32(\h90da, \hf16c), U32(\hece1, \h0b8e), U32(\h11c1, \hcb04),
    U32(\h816a, \h899b), U32(\h69a2, \h9d06), U32(\hfb09, \h0b37), U32(\hf98e, \hf13c),
    U32(\h0765, \h3435), U32(\h9f15, \hdc42), U32(\h3b43, \habdf), U32(\h1334, \h283f),
    U32(\h93f3, \hd9af), U32(\h0cbd, \hfe71), U32(\ha788, \ha614), U32(\h4f54, \hd2f0),
    U32(\hd437, \h4fc7), U32(\h7055, \h7ce7), U32(\hf741, \hfce8), U32(\he4b6, \hf661),
    U32(\hc630, \hcb98), U32(\h387a, \h6366), U32(\h72f4, \h28fd), U32(\h5390, \h09db),
    U32(\hc53e, \h3810), U32(\h1e1a, \h52e5), U32(\h7d68, \h16b0), U32(\h040f, \h9b81),
    U32(\h9c99, \hc9fb), U32(\h9f3a, \hf3d2), U32(\h774d, \h1061), U32(\hd5c8, \h40ea),
    U32(\h8e14, \h80fe), U32(\h6ee4, \h023c), U32(\h2fbd, \ha535), U32(\hd88e, \hff7a),
    U32(\hd863, \h2a2a), U32(\h43c4, \he024), U32(\h3ef2, \h7971), U32(\hc728, \h66fd),
    U32(\he35c, \hc630), U32(\h46d9, \h6220), U32(\h437a, \h8384), U32(\he92c, \haf0c),
    U32(\h6290, \ha47e), U32(\ha7bb, \h9238), U32(\h0e10, \h00f9), U32(\h49e7, \h6bdc),
    U32(\h3acf, \hb4b8), U32(\h0358, \h2b8e), U32(\h6ea2, \hde4e), U32(\h2ec1, \h008d),
    U32(\hfcc8, \hdf69), U32(\h91c2, \hfe0a), U32(\hb471, \hc7d9), U32(\h778b, \he812),
    U32(\h70d2, \h9ad1), U32(\h7641, \h1cbf), U32(\hc302, \he81c), U32(\h4e44, \h5194),
    U32(\h22e3, \haa72), U32(\hb657, \h62e9), U32(\ha280, \hdb05), U32(\h827a, \ha70e),
    U32(\h4c53, \h1a9d), U32(\h7a60, \hbf4a), U32(\h8fd9, \h5a44), U32(\h2289, \haef0),
    U32(\hcd50, \hddc4), U32(\h639a, \hae69), U32(\h5fe8, \h5ed6), U32(\h4ed7, \h24ff),
    U32(\h00f0, \h4f7d), U32(\h95a5, \hfcb0), U32(\h8825, \h5d15), U32(\ha603, \hd2c9),
    U32(\hf695, \h6a5b), U32(\h53ea, \h7f3e), U32(\hb570, \hf225), U32(\h2b3b, \he203),
    U32(\ha181, \he40e), U32(\hc413, \hcdce), U32(\ha7cb, \h1ebb), U32(\hcf25, \h8b1f),
    U32(\h516e, \hb016), U32(\hca20, \h4586), U32(\hd1e6, \h9894), U32(\he85a, \h73d3),
    U32(\h7db2, \hd382), U32(\hae73, \hb463), U32(\h3598, \hd643), U32(\h5087, \hc864),
    U32(\hd91f, \h30b6), U32(\he1d4, \hd1e7), U32(\h73b3, \hb337), U32(\hceac, \h1233),
    U32(\h8edf, \h7845), U32(\ha69c, \h45c9), U32(\hdb5d, \hb3ab), U32(\h28cf, \hade8),
    U32(\hebfa, \h49e7), U32(\hcbc2, \ha659), U32(\h59cc, \he971), U32(\h959a, \h01af),
    U32(\h8ee9, \haae7), U32(\hfb2f, \h01c6), U32(\h5a75, \h2836), U32(\h9ed1, \h2981),
    U32(\h618d, \h05b6), U32(\h93ec, \h12b3), U32(\h4590, \hc779), U32(\hed13, \h17a2),
    U32(\h03fe, \h5835), U32(\h7ad3, \hc6f7), U32(\hd4aa, \hd5b5), U32(\h1a99, \h5ed7),
    U32(\h247b, \hfaa4), U32(\h69c2, \hc799), U32(\h745f, \ha405), U32(\hc5b9, \hf239),
    U32(\hc3d9, \haebc), U32(\ha6f6, \h0e0b), U32(\hdf1e, \h91d7), U32(\hab8e, \h041c),
    U32(\hee31, \h88c6), U32(\h3737, \h7a9e), U32(\hc0e1, \ha3bf), U32(\h19a5, \ha9e4),
    U32(\h56cb, \h9556), U32(\hc4d3, \h3d3f), U32(\hfb1e, \hb03e), U32(\hf955, \h7057),
    U32(\h1be3, \h1d37), U32(\hd1fa, \h65f1), U32(\hf518, \hd714), U32(\h570a, \hc722),
    U32(\hf26c, \hf66a), U32(\h2479, \h4d47), U32(\h8ba2, \he402), U32(\h3f51, \h37e6),
    U32(\h35be, \h1453), U32(\h4335, \h0478), U32(\h9f05, \hee88), U32(\h364c, \hf9cf),
    U32(\h39a2, \h3ee7), U32(\ha4db, \h8d49), U32(\hc2eb, \hb3d2), U32(\hc6fb, \h99d5),
    U32(\he014, \hdfb0), U32(\h7156, \hd425), U32(\he090, \ha87a), U32(\h4cc1, \h2f78),
    U32(\h1b30, \hf503), U32(\h0669, \h4a7a), U32(\h6819, \h8cd1), U32(\h2f83, \h45bd),
    U32(\h9d79, \h198e), U32(\hd871, \h943f), U32(\h22ef, \h6cf4), U32(\he81b, \h1c15),
    U32(\h067b, \h61d8), U32(\hfc4e, \ha4f5), U32(\hfe6d, \hab57), U32(\h1bf7, \h44ba),
    U32(\ha70b, \h6a25), U32(\hafe6, \he412), U32(\hc6c1, \ha05c), U32(\h8ffb, \he3ce),
    U32(\hc427, \h0af1), U32(\hf3f3, \h6373), U32(\hc450, \h7dd8), U32(\h5e6f, \hd1e2),
    U32(\h58cd, \h9739), U32(\h47d3, \hc5b5), U32(\he1d5, \ha343), U32(\h3d4d, \hea4a),
    U32(\h893d, \h91ae), U32(\hbb2a, \h5e2a), U32(\h0d57, \hb800), U32(\h652a, \h7cc9),
    U32(\h6a68, \hccfd), U32(\h6252, \h9f0b), U32(\hec5f, \h36d6), U32(\h766c, \hceda),
    U32(\h96ca, \h63ef), U32(\ha049, \h9838), U32(\hd903, \h0f59), U32(\h8185, \hf4d2)
>>

\* byte i (0..1023) of the static data: word i \div 4, little-endian
TableByte(i) == Table[(i \div 4) + 1][(i % 4) + 1]

-----------------------------------------------------------------------------
(* Memory layout used by the callers of the model (tests/index.js). *)

\* tests/index.js line 12
staticAddr == 0

\* the values staticInit is called with: two overlapping table locations,
\* and -1 (size query only)
StaticDests == {staticAddr, staticAddr + Shift}

StaticArgs == StaticDests \cup {USIZE_MAX}

\* Header field offsets (class Header, index.ts lines 34-39)
OffState == 0

OffBlockSize == 4

OffPosition == 6

OffOverflow == 8

\* offsetof<Header>(): the end of the last field
offsetofHeader == OffOverflow + 1

\* wrong sizing: the sum narrowed to the u16 of the parameter
sizeU16(blockSize) == (offsetofHeader + blockSize) % (U16_MAX + 1)

\* size(blockSize: u16): usize.  Both operands are below 2^17, so the 32-bit
\* usize sum is the integer sum.
size(blockSize) == offsetofHeader + blockSize

\* first instance: right after the farthest table (tests/index.js line 18)
EngA == staticAddr + Shift + 4 * Len(Table)

\* second instance: right after size(MaxPairBlock) bytes of the first
EngB == EngA + size(MaxPairBlock)

Handles == {EngA, EngB}

\* the memory ends after the second instance and the room that a run of
\* MaxAdds add calls can reach past a header
MemSize == EngB + size(MaxBlockSize) + MaxAdds + 4

Addrs == 0 .. (MemSize - 1)

\* a new WebAssembly.Memory is zero-filled (tests/index.js line 3)
ZeroMem == [i \in 1 .. MemSize |-> 0]

\* input bytes of Spec: 'A', 'b'
Bytes == {\h41, \h62}

\* input bytes of SpecPair and SpecStatic: 'a', 'b'
PairBytes == {\h61, \h62}

-----------------------------------------------------------------------------
(* load<T> and store<T>, little-endian. *)

load8(m, a) == m[a + 1]

load16(m, a) == load8(m, a) + 256 * load8(m, a + 1)

load32(m, a) ==
    <<load8(m, a), load8(m, a + 1), load8(m, a + 2), load8(m, a + 3)>>

store8(m, a, v) == [m EXCEPT ![a + 1] = v]

\* wrong width: a u16 field stored as a u32, over the two bytes after it
store16Wide(m, a, v) ==
    [m EXCEPT ![a + 1] = v % 256, ![a + 2] = v \div 256, ![a + 3] = 0,
              ![a + 4] = 0]

store16(m, a, v) == [m EXCEPT ![a + 1] = v % 256, ![a + 2] = v \div 256]

store32(m, a, w) ==
    [m EXCEPT ![a + 1] = w[1], ![a + 2] = w[2], ![a + 3] = w[3],
              ![a + 4] = w[4]]

-----------------------------------------------------------------------------
(* init *)

\* wrong reset: the overflow flag is left as it was
initKeepOverflow(m, dest, blockSize) ==
    LET m1 == store32(m, dest + OffState, Zero32)
        m2 == store16(m1, dest + OffBlockSize, blockSize)
    IN  store16(m2, dest + OffPosition, 0)

\* init(dest, blockSize): the memory after the four header stores
init(m, dest, blockSize) ==
    LET m1 == store32(m, dest + OffState, Zero32)
        m2 == store16(m1, dest + OffBlockSize, blockSize)
        m3 == store16(m2, dest + OffPosition, 0)
    IN  store8(m3, dest + OffOverflow, 0)

-----------------------------------------------------------------------------
(* add *)

\* wrong buffer: one buffer shared by all instances
bufferShared(buzHash) == EngA + offsetofHeader

\* const buffer = buzHash + offsetof<Header>()
buffer(buzHash) == buzHash + offsetofHeader

\* wrong wrap test: wraps one call early
wrappedEarly(position, blockSize) == position >= blockSize - 1

\* header.position === header.blockSize
wrapped(position, blockSize) == position = blockSize

\* wrong ageing: the rotation is left out
agedNot(state) == state

\* state = rotl(state, 1)
aged(state) == rotl(state, 1)

\* lookup scaled by the word size: the word at index b of the listing
contributionScaled(m, sd, b) == load32(m, sd + 4 * b)

\* load<u32>(staticData + b): the four bytes at byte offset b of the table
contribution(m, sd, b) == load32(m, sd + b)

\* wrong eviction: rotated one bit short
evictTermShort(random, blockSize) == rotl(random, blockSize - 1)

\* rotl(random, header.blockSize)
evictTerm(random, blockSize) == rotl(random, blockSize)

\* add(buzHash, byte) on memory m with the global staticData = sd: the
\* memory after the call, the value returned, and what the call did
add(m, sd, buzHash, byte) ==
    LET header   == buzHash
        buf      == buffer(buzHash)
        wrap     == wrapped(load16(m, header + OffPosition),
                            load16(m, header + OffBlockSize))
        m1       == IF wrap
                    THEN store8(store16(m, header + OffPosition, 0),
                                header + OffOverflow, 1)
                    ELSE m
        state1   == aged(load32(m1, header + OffState))
        overflow == load8(m1, header + OffOverflow) # 0
        blockSz  == load16(m1, header + OffBlockSize)
        pos      == load16(m1, header + OffPosition)
        removed  == load8(m1, buf + pos)
        random   == contribution(m1, sd, removed)
        state2   == IF overflow
                    THEN Xor32(state1, evictTerm(random, blockSz))
                    ELSE state1
        m2       == store8(m1, buf + pos, byte)
        m3       == store16(m2, header + OffPosition,
                            (load16(m2, header + OffPosition) + 1) % (U16_MAX + 1))
        ins      == contribution(m3, sd, byte)
        state3   == Xor32(state2, ins)
        m4       == store32(m3, header + OffState, state3)
    IN  [mem     |-> m4,
         ret     |-> state3,
         wrap    |-> wrap,
         evict   |-> overflow,
         slot    |-> pos,
         removed |-> IF overflow THEN removed ELSE -1,
         random  |-> IF overflow THEN random ELSE Zero32,
         ins     |-> ins,
         rd      |-> IF overflow THEN {buf + pos} ELSE {},
         wr      |-> {buf + pos}]

-----------------------------------------------------------------------------
(* staticInit *)

\* wrong bookkeeping: the location is recorded even for the size query
staticInitDataAlways(sd, dest) == dest

\* the global staticData after staticInit(dest)
staticInitData(sd, dest) == IF dest = USIZE_MAX THEN sd ELSE dest

\* the memory after staticInit(dest): 256 store<u32>(p, word); p += 4
staticInitMem(m, dest) ==
    IF dest = USIZE_MAX THEN m
    ELSE [i \in DOMAIN m |->
             IF i - 1 >= dest /\ i - 1 < dest + 4 * Len(Table)
             THEN TableByte(i - 1 - dest) ELSE m[i]]

\* the value staticInit(dest) returns: 1024, or p - dest
staticInitRet(dest) ==
    IF dest = USIZE_MAX THEN 1024 ELSE (dest + 4 * Len(Table)) - dest

-----------------------------------------------------------------------------
(* The calls, as actions. *)

NoOp ==
    [op |-> "none", h |-> 0, arg |-> 0, retn |-> 0, ret32 |-> Zero32,
     evict |-> FALSE, wrap |-> FALSE, slot |-> 0, removed |-> -1,
     random |-> Zero32, ins |-> Zero32, rd |-> {}, wr |-> {}]

Init ==
    /\ mem = ZeroMem
    /\ staticData = USIZE_MAX
    /\ fed = [h \in Handles |-> <<>>]
    /\ ret = [h \in Handles |-> <<>>]
    /\ inited = [h \in Handles |-> FALSE]
    /\ written = [h \in Handles |-> {}]
    /\ calls = [staticInit |-> <<>>, size |-> 0,
                init |-> [h \in Handles |-> 0], add |-> [h \in Handles |-> 0]]
    /\ lastOp = NoOp

\* size(blockSize)
SizeCall(blockSize) ==
    /\ lastOp' = [NoOp EXCEPT !.op = "size", !.arg = blockSize,
                              !.retn = size(blockSize)]
    /\ calls' = [calls EXCEPT !.size = @ + 1]
    /\ UNCHANGED <<mem, staticData, fed, ret, inited, written>>

\* staticInit(dest)
StaticInitCall(dest) ==
    /\ mem' = staticInitMem(mem, dest)
    /\ staticData' = staticInitData(staticData, dest)
    /\ lastOp' = [NoOp EXCEPT !.op = "staticInit", !.arg = dest,
                              !.retn = staticInitRet(dest)]
    /\ calls' = [calls EXCEPT !.staticInit = Append(@, dest)]
    /\ UNCHANGED <<fed, ret, inited, written>>

\* init(h, blockSize)
InitCall(h, blockSize) ==
    /\ mem' = init(mem, h, blockSize)
    /\ fed' = [fed EXCEPT ![h] = <<>>]
    /\ ret' = [ret EXCEPT ![h] = <<>>]
    /\ inited' = [inited EXCEPT ![h] = TRUE]
    /\ written' = [written EXCEPT ![h] = {}]
    /\ lastOp' = [NoOp EXCEPT !.op = "init", !.h = h, !.arg = blockSize]
    /\ calls' = [calls EXCEPT !.init[h] = @ + 1]
    /\ UNCHANGED staticData

\* add(h, byte), by a caller who followed the usage guide (index.ts lines
\* 20-27): staticInit was given a location and init was called on h
AddCall(h, byte) ==
    /\ staticData # USIZE_MAX
    /\ inited[h]
    /\ \E r \in {add(mem, staticData, h, byte)} :
           /\ mem' = r.mem
           /\ fed' = [fed EXCEPT ![h] = Append(@, byte)]
           /\ ret' = [ret EXCEPT ![h] = Append(@, r.ret)]
           /\ written' = [written EXCEPT ![h] = @ \cup r.wr]
           /\ lastOp' = [op |-> "add", h |-> h, arg |-> byte, retn |-> 0,
                         ret32 |-> r.ret, evict |-> r.evict, wrap |-> r.wrap,
                         slot |-> r.slot, removed |-> r.removed,
                         random |-> r.random, ins |-> r.ins,
                         rd |-> r.rd, wr |-> r.wr]
    /\ calls' = [calls EXCEPT !.add[h] = @ + 1]
    /\ UNCHANGED <<staticData, inited>>

-----------------------------------------------------------------------------
(* Specifications. *)

\* One instance driven as tests/index.js drives it: the table is set up once
\* at staticAddr, the instance is initialised with any block size from 0,
\* fed, and initialised again on the same storage.
Next ==
    \/ staticData = USIZE_MAX /\ StaticInitCall(staticAddr)
    \/ \E blockSize \in 0 .. MaxBlockSize :
          calls.init[EngA] < MaxInits /\ InitCall(EngA, blockSize)
    \/ \E byte \in Bytes :
          calls.add[EngA] < MaxAdds /\ AddCall(EngA, byte)

Spec == Init /\ [][Next]_vars

\* Two instances in adjacent storage sharing one table, their add calls
\* interleaved in every order.
NextPair ==
    \/ staticData = USIZE_MAX /\ StaticInitCall(staticAddr)
    \/ \E h \in Handles, blockSize \in 1 .. MaxPairBlock :
          calls.init[h] < 1 /\ InitCall(h, blockSize)
    \/ \E h \in Handles, byte \in PairBytes :
          calls.add[h] < MaxPairAdds /\ AddCall(h, byte)

SpecPair == Init /\ [][NextPair]_vars

\* staticInit called repeatedly, with two locations and with -1, around the
\* use of one instance.
NextStatic ==
    \/ \E dest \in StaticArgs :
          Len(calls.staticInit) < MaxStaticInits /\ StaticInitCall(dest)
    \/ calls.init[EngA] < 1 /\ InitCall(EngA, 1)
    \/ \E byte \in PairBytes :
          calls.add[EngA] < MaxPairAdds /\ AddCall(EngA, byte)

SpecStatic == Init /\ [][NextStatic]_vars

\* size called with every u16, as the first call of the caller.
NextSize ==
    /\ lastOp.op = "none"
    /\ \E blockSize \in 0 .. U16_MAX : SizeCall(blockSize)

SpecSize == Init /\ [][NextSize]_vars

\* The contribution of one byte followed through the add calls made after
\* the one that inserted it: each call rotates the state, and with it the
\* contribution, by one bit (aged); lastOp.arg counts those calls, up to the
\* largest block size.
InitAged ==
    /\ mem = staticInitMem(ZeroMem, staticAddr)
    /\ staticData = staticAddr
    /\ fed = [h \in Handles |-> <<>>]
    /\ ret = [h \in Handles |-> <<>>]
    /\ inited = [h \in Handles |-> FALSE]
    /\ written = [h \in Handles |-> {}]
    /\ calls = [staticInit |-> <<staticAddr>>, size |-> 0,
                init |-> [h \in Handles |-> 0], add |-> [h \in Handles |-> 0]]
    /\ \E byte \in Bytes :
           lastOp = [NoOp EXCEPT
                        !.op = "aged", !.removed = byte,
                        !.random = contribution(mem, staticData, byte),
                        !.ret32 = contribution(mem, staticData, byte)]

NextAged ==
    /\ lastOp.op = "aged"
    /\ lastOp.arg < U16_MAX
    /\ lastOp' = [lastOp EXCEPT !.arg = @ + 1, !.ret32 = aged(@)]
    /\ UNCHANGED <<mem, staticData, fed, ret, inited, written, calls>>

SpecAged == InitAged /\ [][NextAged]_vars

-----------------------------------------------------------------------------
(* Reference runs: the same calls made on storage nobody has used. *)

\* memory in which only staticInit(sd) has run
FreshMem == [sd \in StaticDests |-> staticInitMem(ZeroMem, sd)]

RECURSIVE feed(_, _, _, _)
\* the hashes returned by add(h, S[1]), add(h, S[2]), ... starting in m
\* (the loops of tests/index.js, lines 34-36 and 67-73)
feed(m, sd, h, S) ==
    IF S = <<>> THEN <<>>
    ELSE LET r == add(m, sd, h, Head(S))
         IN  <<r.ret>> \o feed(r.mem, sd, h, Tail(S))

\* init(h, blockSize) on fresh memory, then S fed: the hashes returned
FreshHashes(h, blockSize, S) ==
    feed(init(FreshMem[staticData], h, blockSize), staticData, h, S)

\* the hash of such an instance after S: the last value returned, or the
\* state init stored when nothing was fed
FreshHash(h, blockSize, S) ==
    IF S = <<>>
    THEN load32(init(FreshMem[staticData], h, blockSize), h + OffState)
    ELSE FreshHashes(h, blockSize, S)[Len(S)]

\* the hash of instance h now: the last value add returned, or 0
CurHash(h) == IF ret[h] = <<>> THEN Zero32 ELSE ret[h][Len(ret[h])]

\* the block size instance h was initialised with
BlockSizeOf(h) == load16(mem, h + OffBlockSize)

\* the last n elements of S
LastN(S, n) == SubSeq(S, Len(S) - n + 1, Len(S))

\* instance h is in use: initialised, and the table is in place
Live(h) == inited[h] /\ staticData # USIZE_MAX

-----------------------------------------------------------------------------
(* Claims. *)

\* C1 (window-only dependence): for a block size L >= 1, once L or more
\* bytes have been fed the hash last returned equals the hash last returned
\* by a fresh instance of block size L fed only the last L of those bytes.
C1_WindowOnly ==
    \A h \in Handles :
        (Live(h) /\ BlockSizeOf(h) >= 1 /\ Len(fed[h]) >= BlockSizeOf(h))
        => CurHash(h) =
               FreshHash(h, BlockSizeOf(h), LastN(fed[h], BlockSizeOf(h)))

\* C1 witness: a window of 2 after 4 bytes whose first two differ from the
\* last two
C1_Witness ==
    /\ Live(EngA) /\ BlockSizeOf(EngA) = 2 /\ Len(fed[EngA]) = 4
    /\ SubSeq(fed[EngA], 1, 2) # SubSeq(fed[EngA], 3, 4)

\* C2 (growing window): while fewer bytes than the block size have been fed,
\* k of them, the hash equals that of a fresh instance of block size k fed
\* the same k bytes.
C2_GrowingWindow ==
    \A h \in Handles :
        (Live(h) /\ Len(fed[h]) < BlockSizeOf(h))
        => CurHash(h) = FreshHash(h, Len(fed[h]), fed[h])

\* C2 witness: two bytes fed into a window of three
C2_Witness ==
    Live(EngA) /\ BlockSizeOf(EngA) = 3 /\ Len(fed[EngA]) = 2

\* C3 (reset): after init(h, w) with w >= 1, whatever the storage held
\* before, the hashes returned for the bytes fed since are those a fresh
\* instance returns for the same bytes.
C3_Reset ==
    \A h \in Handles :
        (Live(h) /\ BlockSizeOf(h) >= 1)
        => ret[h] = FreshHashes(h, BlockSizeOf(h), fed[h])

\* C3 witness: a second init on storage whose earlier use had overflowed
\* (more adds than bytes fed since), followed by enough adds to evict
C3_Witness ==
    /\ Live(EngA) /\ calls.init[EngA] = 2 /\ BlockSizeOf(EngA) >= 1
    /\ Len(fed[EngA]) > BlockSizeOf(EngA)
    /\ calls.add[EngA] > Len(fed[EngA]) + 1
    /\ \E a \in buffer(EngA) .. (buffer(EngA) + BlockSizeOf(EngA) - 1) :
           load8(mem, a) # 0

\* the word at index b of the listing that staticInit stores
TableWord(b) == Table[b + 1]

\* C4 (table lookup): the contribution add XORs in for the byte it inserts,
\* and the one it rotates and XORs in for the byte it evicts, is the word at
\* that byte's index in the listing.
C4_TableLookup ==
    lastOp.op = "add"
    => /\ lastOp.ins = TableWord(lastOp.arg)
       /\ lastOp.evict => lastOp.random = TableWord(lastOp.removed)

\* C5 as stated: after init(h, 1) and one add of 0x41, the hash returned is
\* the contribution of 0x41 rotated left by one bit.
C5_RotatedOnce ==
    \A h \in Handles :
        (Live(h) /\ BlockSizeOf(h) = 1 /\ fed[h] = <<\h41>>)
        => ret[h][1] = rotl(load32(mem, staticData + \h41), 1)

\* C5 amended: after init(h, 1) and one add of 0x41, the hash returned is
\* the contribution add loads for 0x41 (the u32 at staticData + 0x41), not
\* rotated.
C5_Unrotated ==
    \A h \in Handles :
        (Live(h) /\ BlockSizeOf(h) = 1 /\ fed[h] = <<\h41>>)
        => ret[h][1] = load32(mem, staticData + \h41)

\* C5 witness: a window of one after the single byte 0x41
C5_Witness ==
    Live(EngA) /\ BlockSizeOf(EngA) = 1 /\ fed[EngA] = <<\h41>>

\* C6 (sizing): size(w) is 9 + w for every u16 w.
C6_Sizing ==
    lastOp.op = "size" => lastOp.retn = 9 + lastOp.arg

\* C6 witness: size called with the largest u16
C6_Witness ==
    lastOp.op = "size" /\ lastOp.arg = U16_MAX /\ lastOp.retn = 65544

\* C7 (zero-size window): with block size 0 every add returns 0.
C7_ZeroWindow ==
    \A h \in Handles :
        (Live(h) /\ BlockSizeOf(h) = 0)
        => \A i \in 1 .. Len(ret[h]) : ret[h][i] = Zero32

\* the table stands unchanged where staticData points
TableIntact ==
    staticData # USIZE_MAX
    => \A i \in 0 .. (4 * Len(Table) - 1) : load8(mem, staticData + i) = TableByte(i)

\* C8 (independence): with two instances in disjoint storage sharing the
\* table, under every interleaving each instance has returned the hashes it
\* returns when driven alone on fresh memory, and the table is unchanged.
C8_Independent ==
    /\ \A h \in Handles :
           Live(h) => ret[h] = FreshHashes(h, BlockSizeOf(h), fed[h])
    /\ TableIntact

\* C8 witness: both instances past their first eviction, fed different bytes
C8_Witness ==
    /\ Live(EngA) /\ Live(EngB)
    /\ Len(fed[EngA]) > BlockSizeOf(EngA)
    /\ Len(fed[EngB]) > BlockSizeOf(EngB)
    /\ fed[EngA] # fed[EngB]
    /\ lastOp.op = "add"

RECURSIVE LastDest(_)
\* the argument of the most recent staticInit call that was not -1
LastDest(S) ==
    IF S = <<>> THEN USIZE_MAX
    ELSE IF S[Len(S)] # USIZE_MAX THEN S[Len(S)]
    ELSE LastDest(SubSeq(S, 1, Len(S) - 1))

\* C9 (staticInit): a call with dest # -1 writes the 1024 table bytes at
\* dest and nothing else, records dest and returns 1024; a call with -1
\* returns 1024 and changes neither the memory nor the recorded location;
\* the recorded location is always the dest of the most recent call with
\* dest # -1, and it is where the next add looks its contributions up.
C9_StaticInit ==
    [][/\ calls'.staticInit # calls.staticInit
          => LET dest == lastOp'.arg
             IN  /\ lastOp'.op = "staticInit"
                 /\ lastOp'.retn = 1024
                 /\ IF dest = USIZE_MAX
                    THEN mem' = mem /\ staticData' = staticData
                    ELSE /\ staticData' = dest
                         /\ \A a \in Addrs :
                                load8(mem', a) =
                                    IF a >= dest /\ a < dest + 1024
                                    THEN TableByte(a - dest)
                                    ELSE load8(mem, a)
                 /\ staticData' = LastDest(calls'.staticInit)
       /\ calls'.add # calls.add
          => lastOp'.ins =
                 load32(mem, LastDest(calls.staticInit) + lastOp'.arg)
      ]_vars

\* C9 witness: the table placed, moved, and then a size query with -1
C9_Witness ==
    /\ calls.staticInit = <<staticAddr, staticAddr + Shift, USIZE_MAX>>
    /\ staticData = staticAddr + Shift
    /\ lastOp.op = "staticInit" /\ lastOp.retn = 1024

\* C10 (order sensitivity): with block size 2, the hash after "ab" differs
\* from the hash after "ba".
C10_OrderSensitive ==
    \A h \in Handles :
        (Live(h) /\ BlockSizeOf(h) = 2)
        => /\ fed[h] = <<\h61, \h62>>
              => CurHash(h) # FreshHash(h, 2, <<\h62, \h61>>)
           /\ fed[h] = <<\h62, \h61>>
              => CurHash(h) # FreshHash(h, 2, <<\h61, \h62>>)

\* C10 witness: "ab" fed into a window of two
C10_Witness ==
    Live(EngA) /\ BlockSizeOf(EngA) = 2 /\ fed[EngA] = <<\h61, \h62>>

-----------------------------------------------------------------------------
(* Claims about the header fields, observed between calls. *)

\* the position stored in the header of instance h
PositionOf(h) == load16(mem, h + OffPosition)

\* the overflow flag stored in the header of instance h
OverflowOf(h) == load8(mem, h + OffOverflow) # 0

\* C11 as stated: between calls the stored position of an instance with
\* block size w >= 1 satisfies 0 <= position < w.
C11_PositionBelow ==
    \A h \in Handles :
        (Live(h) /\ BlockSizeOf(h) >= 1)
        => PositionOf(h) >= 0 /\ PositionOf(h) < BlockSizeOf(h)

\* C11 amended: between calls 0 <= position <= w; after n >= 1 adds the
\* stored position is ((n - 1) mod w) + 1, so it is w after every w-th add
\* and goes back to 0 only at the start of the add that follows.
C11_PositionUpTo ==
    \A h \in Handles :
        (Live(h) /\ BlockSizeOf(h) >= 1)
        => /\ PositionOf(h) >= 0 /\ PositionOf(h) <= BlockSizeOf(h)
           /\ PositionOf(h) =
                  IF fed[h] = <<>> THEN 0
                  ELSE ((Len(fed[h]) - 1) % BlockSizeOf(h)) + 1
           /\ (lastOp.op = "add" /\ lastOp.h = h)
              => (lastOp.wrap <=> (Len(fed[h]) > 1 /\ lastOp.slot = 0))

\* C11 witness: the stored position equals the block size, after the
\* second pass over a buffer of two bytes
C11_Witness ==
    /\ Live(EngA) /\ BlockSizeOf(EngA) = 2 /\ Len(fed[EngA]) = 4
    /\ PositionOf(EngA) = 2

\* C12 as stated, for w >= 1: once w or more bytes have been fed since
\* init(h, w), the stored overflow flag is set.
C12_FilledAtW ==
    \A h \in Handles :
        (Live(h) /\ BlockSizeOf(h) >= 1 /\ Len(fed[h]) >= BlockSizeOf(h))
        => OverflowOf(h)

\* C12 amended: for w >= 1 the stored overflow flag is set exactly when more
\* than w bytes have been fed since init(h, w); after exactly w bytes it is
\* still clear.
C12_FilledAfterW ==
    \A h \in Handles :
        (Live(h) /\ BlockSizeOf(h) >= 1)
        => (OverflowOf(h) <=> Len(fed[h]) > BlockSizeOf(h))

\* C12 witness: the flag set by the add that follows the filling one, after
\* a second init
C12_Witness ==
    /\ Live(EngA) /\ calls.init[EngA] = 2 /\ BlockSizeOf(EngA) = 2
    /\ Len(fed[EngA]) = 3 /\ OverflowOf(EngA)

-----------------------------------------------------------------------------
(* Claims about the memory add touches. *)

\* the addresses of the storage size(w) grants to instance h
StorageOf(h) == h .. (h + size(BlockSizeOf(h)) - 1)

\* C13 (memory bounds): every buffer byte the last add read or wrote lies
\* in the first size(w) bytes of the instance's storage, at a buffer index
\* in [0, w), for every block size w from 0.
C13_InBounds ==
    lastOp.op = "add"
    => \A a \in lastOp.rd \cup lastOp.wr :
           /\ a \in StorageOf(lastOp.h)
           /\ a - buffer(lastOp.h) >= 0
           /\ a - buffer(lastOp.h) < BlockSizeOf(lastOp.h)

-----------------------------------------------------------------------------
(* Claims about the value of the hash. *)

RECURSIVE XorAll(_)
\* the exclusive or of a sequence of u32
XorAll(ws) ==
    IF ws = <<>> THEN Zero32
    ELSE Xor32(ws[1], XorAll(SubSeq(ws, 2, Len(ws))))

\* the reference BuzHash of the window after n bytes of S with block size
\* w: the xor over j from max(1, n - w + 1) to n of the contribution of
\* S[j] rotated left by (n - j) mod 32
RefHash(S, n, w) ==
    LET lo == IF n - w + 1 > 1 THEN n - w + 1 ELSE 1
    IN  XorAll([i \in 1 .. (n - lo + 1) |->
                   rotl(load32(mem, staticData + S[lo + i - 1]),
                        (n - (lo + i - 1)) % 32)])

\* C14 (hash reference value): for w >= 1 the n-th hash returned since init
\* is the reference BuzHash of the bytes max(1, n - w + 1) .. n, in the
\* growing phase and in the filled phase alike.
C14_ReferenceValue ==
    \A h \in Handles :
        (Live(h) /\ BlockSizeOf(h) >= 1)
        => \A n \in 1 .. Len(ret[h]) :
               ret[h][n] = RefHash(fed[h], n, BlockSizeOf(h))

\* C14 witness: a window of two that has slid over five bytes, not all equal
C14_Witness ==
    /\ Live(EngA) /\ BlockSizeOf(EngA) = 2 /\ Len(fed[EngA]) = 5
    /\ fed[EngA][4] # fed[EngA][5] /\ fed[EngA][1] # fed[EngA][4]

-----------------------------------------------------------------------------
(* Claims about the circular buffer. *)

\* the byte in slot i of the buffer of instance h
SlotOf(h, i) == load8(mem, buffer(h) + i)

\* C15 (window contents): whenever the overflow flag of an instance with
\* block size w >= 1 is set, its w slots hold the last w bytes fed, the
\* oldest in slot (position mod w), the next in the slot after it
\* (circularly), the newest in slot ((position - 1) mod w).
C15_WindowContents ==
    \A h \in Handles :
        (Live(h) /\ BlockSizeOf(h) >= 1 /\ OverflowOf(h))
        => LET w == BlockSizeOf(h)
               n == Len(fed[h])
           IN  /\ n >= w
               /\ \A i \in 0 .. (w - 1) :
                      SlotOf(h, (PositionOf(h) + i) % w) = fed[h][n - w + 1 + i]
               /\ SlotOf(h, (PositionOf(h) + w - 1) % w) = fed[h][n]

\* C15 witness: a buffer of three with the flag set, the position in the
\* middle, holding bytes that are not all equal
C15_Witness ==
    /\ Live(EngA) /\ BlockSizeOf(EngA) = 3 /\ OverflowOf(EngA)
    /\ PositionOf(EngA) = 2
    /\ SlotOf(EngA, 2) # SlotOf(EngA, 1)

-----------------------------------------------------------------------------
(* Claims about one add call, as properties of its step. *)

\* the step is an add call on instance h, whose block size is at least 1
AddStep(h) == calls'.add[h] # calls.add[h] /\ BlockSizeOf(h) >= 1

\* C16 (eviction timing): for w >= 1 the k-th add since init XORs an evicted
\* byte out exactly when k > w, that byte is the one fed in call k - w, and
\* the overflow flag goes from clear to set in call w + 1 and in no other;
\* add never clears it.
C16_EvictionTiming ==
    [][\A h \in Handles :
           AddStep(h)
           => LET w == BlockSizeOf(h)
                  k == Len(fed'[h])
              IN  /\ lastOp'.evict <=> k > w
                  /\ lastOp'.evict => lastOp'.removed = fed[h][k - w]
                  /\ OverflowOf(h) => OverflowOf(h)'
                  /\ (~OverflowOf(h) /\ OverflowOf(h)') <=> k = w + 1
      ]_vars

\* C16 witness: the fourth add into a window of two has evicted the second
\* byte, which differs from the first
C16_Witness ==
    /\ Live(EngA) /\ BlockSizeOf(EngA) = 2 /\ Len(fed[EngA]) = 4
    /\ lastOp.op = "add" /\ lastOp.evict
    /\ lastOp.removed = fed[EngA][2] /\ fed[EngA][2] # fed[EngA][1]

\* C17 (write before read): for w >= 1 every buffer address add reads was
\* stored to by an earlier add made since the most recent init of that
\* instance.
C17_WriteBeforeRead ==
    [][\A h \in Handles : AddStep(h) => lastOp'.rd \subseteq written[h]]_vars

\* C17 witness: an add that read a slot, after a second init on storage
\* whose buffer the first use had filled
C17_Witness ==
    /\ Live(EngA) /\ calls.init[EngA] = 2 /\ BlockSizeOf(EngA) >= 2
    /\ calls.add[EngA] > Len(fed[EngA]) + 1
    /\ lastOp.op = "add" /\ lastOp.rd # {}

\* C19 (frame of add): for w >= 1 an add call leaves the stored block size
\* as it was, stores the fed byte in the slot at the position in force
\* after the wrap test at the start of the call, leaves every other slot as
\* it was, and returns the hash it stored in the header.
C19_AddFrame ==
    [][\A h \in Handles :
           AddStep(h)
           => LET w    == BlockSizeOf(h)
                  slot == IF PositionOf(h) = w THEN 0 ELSE PositionOf(h)
              IN  /\ BlockSizeOf(h)' = w
                  /\ lastOp'.wr = {buffer(h) + slot}
                  /\ \A i \in 0 .. (w - 1) :
                         SlotOf(h, i)' =
                             IF i = slot THEN lastOp'.arg ELSE SlotOf(h, i)
                  /\ lastOp'.ret32 = load32(mem', h + OffState)
      ]_vars

\* C19 witness: an add that wrote slot 1 of a buffer of three next to a
\* different byte in slot 0
C19_Witness ==
    /\ Live(EngA) /\ BlockSizeOf(EngA) = 3
    /\ lastOp.op = "add" /\ lastOp.wr = {buffer(EngA) + 1}
    /\ SlotOf(EngA, 0) # SlotOf(EngA, 1)
    /\ lastOp.ret32 = load32(mem, EngA + OffState)

-----------------------------------------------------------------------------
(* Claims about the rotation amount. *)

\* C18 (rotation modulo 32): for every block size w in 1..65535 the term
\* add XORs in to evict a byte, evictTerm(c, w), is the byte's contribution
\* c rotated left by w mod 32 (c itself when w is a multiple of 32), and it
\* equals the contribution as w one-bit rotations of the state have left it
\* inside the hash, so that the xor cancels it completely.
C18_RotationAmount ==
    (lastOp.op = "aged" /\ lastOp.arg >= 1)
    => LET w    == lastOp.arg
           term == evictTerm(lastOp.random, w)
       IN  /\ term = rotl(lastOp.random, w % 32)
           /\ w % 32 = 0 => term = lastOp.random
           /\ term = lastOp.ret32
           /\ Xor32(lastOp.ret32, term) = Zero32

\* C18 witness: the block size of the test's 32-byte phrase, where the
\* contribution is back where it started
C18_Witness ==
    /\ lastOp.op = "aged" /\ lastOp.arg = 32
    /\ lastOp.ret32 = lastOp.random /\ lastOp.random # Zero32

====
